---- MODULE Spec2Model ----
(***************************************************************************)
(* Model of the hyprtext multi-tab editor: the line auto-sort of           *)
(* CodeEditor, the FileManager session (files, buffers, active index),     *)
(* the ConfigManager snapshot, and the MainWindow handlers that keep the   *)
(* tab widget, the session and the disk in step.                           *)
(*                                                                         *)
(* A text is a sequence of one-character strings; NL is the line break.    *)
(* A path is a string spelling; Path("") is pathlib's PosixPath("."),      *)
(* written EmptyPath.  Indices are 0-based as in the source; TLA+          *)
(* sequences are 1-based, so element i of the source is s[i + 1].          *)
(***************************************************************************)
EXTENDS Integers, Sequences, FiniteSets, TLC

\* ------------------------------------------------------------------ bounds

\* Most documents open at once.
MaxDocs == 2

\* Most documents open at once in the runs that rename tabs.
MaxDocsSingle == 1

\* The most documents a FileManager called directly holds.
MaxDocsFM == 3

\* --------------------------------------------------------------- constants

\* QTimer start(500): the debounce delay, in ticks of 500 ms.
SortDelay == 1

\* AppState default font size.
DefaultFontSize == 12

\* keyPressEvent clamps the point size to [MinFontSize, MaxFontSize].
MinFontSize == 6

MaxFontSize == 48

\* -------------------------------------------------------------------- text

NL == "\n"

SP == " "

Min(a, b) == IF a < b THEN a ELSE b

Max(a, b) == IF a > b THEN a ELSE b

\* The sequences over S of at most n elements.
SeqsUpTo(S, n) == UNION {[1..k -> S] : k \in 0..n}

\* str.split("\n"): never empty, "" gives [""].
RECURSIVE Split(_)
Split(t) ==
  IF \A i \in 1..Len(t) : t[i] # NL
  THEN <<t>>
  ELSE LET k == CHOOSE i \in 1..Len(t) :
                    t[i] = NL /\ \A j \in 1..(i - 1) : t[j] # NL
       IN <<SubSeq(t, 1, k - 1)>> \o Split(SubSeq(t, k + 1, Len(t)))

\* "\n".join(lines) as it would be if it ended every line, the last one
\* included, with a line break.
RECURSIVE Join_trailing_newline(_)
Join_trailing_newline(ls) ==
  IF Len(ls) = 0 THEN <<>>
  ELSE ls[1] \o <<NL>> \o Join_trailing_newline(Tail(ls))

\* "\n".join(lines)
RECURSIVE Join(_)
Join(ls) ==
  IF Len(ls) = 0 THEN <<>>
  ELSE IF Len(ls) = 1 THEN ls[1]
  ELSE ls[1] \o <<NL>> \o Join(Tail(ls))

\* str.rstrip(): drop trailing whitespace.
RECURSIVE RStrip(_)
RStrip(line) ==
  IF Len(line) > 0 /\ line[Len(line)] \in {SP, NL}
  THEN RStrip(SubSeq(line, 1, Len(line) - 1))
  ELSE line

\* str.endswith(c) for a one-character c.
EndsWith(line, c) == Len(line) > 0 /\ line[Len(line)] = c

\* The if/elif chain as it would be if it tested the line itself and not
\* line.rstrip().
classify_untrimmed(line) ==
  IF EndsWith(line, "-") THEN "Minus"
  ELSE IF EndsWith(line, "!") THEN "Exclamation"
  ELSE IF EndsWith(line, "+") THEN "Plus"
  ELSE "Normal"

\* The if/elif chain of _sort_lines: the category of one line.
classify(line) ==
  LET stripped == RStrip(line)
  IN IF EndsWith(stripped, "-") THEN "Minus"
     ELSE IF EndsWith(stripped, "!") THEN "Exclamation"
     ELSE IF EndsWith(stripped, "+") THEN "Plus"
     ELSE "Normal"

\* One of the four lists as it would be if the loop appended the stripped
\* line.
LinesOf_stripped(lines, cat) ==
  LET kept == SelectSeq(lines, LAMBDA l : classify(l) = cat)
  IN [k \in 1..Len(kept) |-> RStrip(kept[k])]

\* One of the four lists the loop of _sort_lines appends to.
LinesOf(lines, cat) == SelectSeq(lines, LAMBDA l : classify(l) = cat)

\* The concatenation as it would be with the normal block last.
sorted_lines_normal_last(lines) ==
  LinesOf(lines, "Minus") \o LinesOf(lines, "Exclamation")
    \o LinesOf(lines, "Plus") \o LinesOf(lines, "Normal")

\* minus_lines + exclamation_lines + normal_lines + plus_lines
sorted_lines(lines) ==
  LinesOf(lines, "Minus") \o LinesOf(lines, "Exclamation")
    \o LinesOf(lines, "Normal") \o LinesOf(lines, "Plus")

\* list.index(x): 0-based position of the first element equal to x, -1 for
\* ValueError.
IndexOf(lines, x) ==
  IF \E k \in 1..Len(lines) : lines[k] = x
  THEN (CHOOSE k \in 1..Len(lines) :
          lines[k] = x /\ \A j \in 1..(k - 1) : lines[j] # x) - 1
  ELSE -1

\* The cursor _sort_lines leaves after it replaced the text: setPlainText put
\* it at the document start, and it moves only when the saved line is not
\* empty and is found.
relocate_cursor(new_text, old_line_text, old_column) ==
  IF old_line_text # <<>>
  THEN LET new_lines == Split(new_text)
           new_block_number == IndexOf(new_lines, old_line_text)
       IN IF new_block_number >= 0
          THEN <<new_block_number,
                 Min(old_column, Len(new_lines[new_block_number + 1]))>>
          ELSE <<0, 0>>
  ELSE <<0, 0>>

\* _sort_lines as it would be without `if new_text != current_text`: the
\* text is always replaced and the cursor always relocated.
sort_lines_always_replace(text, cur) ==
  LET lines == Split(text)
      old_line_text == IF 0 <= cur[1] /\ cur[1] < Len(lines)
                       THEN lines[cur[1] + 1]
                       ELSE <<>>
      new_text == Join(sorted_lines(lines))
  IN [text |-> new_text,
      cur |-> relocate_cursor(new_text, old_line_text, cur[2])]

\* CodeEditor._sort_lines on a surface with text `text` and the cursor at
\* cur = <<block number, column>>: the new text and cursor.
sort_lines(text, cur) ==
  LET lines == Split(text)
      old_block_number == cur[1]
      old_column == cur[2]
      old_line_text == IF 0 <= old_block_number /\ old_block_number < Len(lines)
                       THEN lines[old_block_number + 1]
                       ELSE <<>>
      new_text == Join(sorted_lines(lines))
  IN IF new_text # text
     THEN [text |-> new_text,
           cur |-> relocate_cursor(new_text, old_line_text, old_column)]
     ELSE [text |-> text, cur |-> cur]

\* ------------------------------------------------------------------- paths

\* Path(""): pathlib normalises the empty spelling to ".".
EmptyPath == "."

\* The path spellings a dialog, the snapshot or the command line can give.
\* /l is a symbolic link to the directory /w, the working directory.
Paths == {"/w/a", "/l/a", "/w/d"}

\* The regular files there can be, by canonical name.
DiskFiles == {"/w/a"}

\* The directories; they exist throughout.
Dirs == {"/w", "/w/d"}

\* Path(p_str) / str(path): the spelling is kept, "" and "." both give ".".
PathOf(p_str) == IF p_str = "" THEN EmptyPath ELSE p_str

\* Path.resolve(): the canonical absolute path.
resolve(p) ==
  IF p = EmptyPath THEN "/w"
  ELSE IF p = "/l/a" THEN "/w/a"
  ELSE p

\* bool(path) as in `if not target`, `if path and ...`: pathlib.Path defines
\* neither __bool__ nor __len__, so every Path object is truthy.
path_bool(p) == TRUE

\* Path.name: the last component, "" for Path("").
path_name(p) ==
  IF p = EmptyPath THEN ""
  ELSE IF p = "/w/a" \/ p = "/l/a" THEN "a"
  ELSE IF p = "/w/d" THEN "d"
  ELSE p

\* path.suffix.lower() == ".md": no path of Paths has the suffix.
is_md(p) == FALSE

\* Path.is_dir()
is_dir(p) == resolve(p) \in Dirs

\* Path.is_file()
is_file(d, p) == resolve(p) \in DiskFiles /\ d[resolve(p)].ex

\* Path.exists()
exists(d, p) == is_dir(p) \/ is_file(d, p)

\* A file that is not there.
NoFile == [ex |-> FALSE, text |-> <<>>]

\* Path.read_text() of an existing regular file.
read_text(d, p) == d[resolve(p)].text

\* Path.write_text(text): the disk after a write that succeeds.
write_text(d, p, text) ==
  [d EXCEPT ![resolve(p)] = [ex |-> TRUE, text |-> text]]

\* ------------------------------------------------------------- FileManager
\* The session record s holds files, buffers, active_index (FileManager),
\* tabs and current (the QTabWidget) and disk.

\* index: Optional[int] = None
NoIndex == -1000

\* idx = self._active_index if index is None else index
index_or_active(s, index) == IF index = NoIndex THEN s.active_index ELSE index

\* FileManager.get_buffer
get_buffer(s, index) ==
  LET idx == index_or_active(s, index)
  IN IF 0 <= idx /\ idx < Len(s.buffers) THEN s.buffers[idx + 1] ELSE <<>>

\* The loop of open_file: 0-based index of the first open file equal to
\* path as a Path object, -1 when there is none.
find_open(fs, path) ==
  IF \E i \in 1..Len(fs) : fs[i] = path
  THEN (CHOOSE i \in 1..Len(fs) :
          fs[i] = path /\ \A j \in 1..(i - 1) : fs[j] # path) - 1
  ELSE -1

\* open_file as it would be if a file that cannot be read were not opened:
\* no document is added and -1 is returned.
open_file_skips_unreadable(s, path) ==
  LET i == find_open(s.files, path)
  IN IF i >= 0
     THEN [s |-> [s EXCEPT !.active_index = i], ret |-> i]
     ELSE IF ~is_file(s.disk, path)
     THEN [s |-> s, ret |-> -1]
     ELSE [s |-> [s EXCEPT !.files = Append(s.files, path),
                           !.buffers = Append(s.buffers, read_text(s.disk, path)),
                           !.active_index = Len(s.files)],
           ret |-> Len(s.files)]

\* FileManager.open_file: the new session and the returned index.
open_file(s, path) ==
  LET i == find_open(s.files, path)
      text == IF exists(s.disk, path) /\ is_file(s.disk, path)
              THEN read_text(s.disk, path)
              ELSE <<>>
  IN IF i >= 0
     THEN [s |-> [s EXCEPT !.active_index = i], ret |-> i]
     ELSE [s |-> [s EXCEPT !.files = Append(s.files, path),
                           !.buffers = Append(s.buffers, text),
                           !.active_index = Len(s.files)],
           ret |-> Len(s.files)]

\* new_file as it would be if it left the active index alone.
new_file_keeps_active(s) ==
  [s EXCEPT !.files = Append(s.files, EmptyPath),
            !.buffers = Append(s.buffers, <<>>)]

\* FileManager.new_file; it returns the new active_index.
new_file(s) ==
  [s EXCEPT !.files = Append(s.files, EmptyPath),
            !.buffers = Append(s.buffers, <<>>),
            !.active_index = Len(s.files)]

\* set_buffer as it would be if it ignored its index and always wrote the
\* buffer of the active document.
set_buffer_of_active(s, text, index) ==
  IF 0 <= s.active_index /\ s.active_index < Len(s.buffers)
  THEN [s EXCEPT !.buffers[s.active_index + 1] = text]
  ELSE s

\* FileManager.set_buffer
set_buffer(s, text, index) ==
  LET idx == index_or_active(s, index)
  IN IF 0 <= idx /\ idx < Len(s.buffers)
     THEN [s EXCEPT !.buffers[idx + 1] = text]
     ELSE s

\* The files list as it would be if save_file wrote to the given path
\* without binding the document to it.
rebind_ignored(fs, idx, has_path, path) == fs

\* The files list of save_file after `if path is not None: self._files[idx] =
\* path`; has_path says whether a path was passed.
rebind(fs, idx, has_path, path) ==
  IF has_path THEN [fs EXCEPT ![idx + 1] = path] ELSE fs

\* FileManager.save_file: the new session, the error raised ("none" when it
\* returns) and the path returned ("" when it raises).  ok says whether
\* write_text succeeds.
save_file(s, has_path, path, index, ok) ==
  LET idx == index_or_active(s, index)
  IN IF idx < 0 \/ idx >= Len(s.buffers)
     THEN [s |-> s, err |-> "NoActiveDocument", ret |-> ""]
     ELSE LET fs == rebind(s.files, idx, has_path, path)
              s1 == [s EXCEPT !.files = fs]
              target == fs[idx + 1]
          IN IF ~path_bool(target)
             THEN [s |-> s1, err |-> "NoTargetPath", ret |-> ""]
             ELSE IF exists(s.disk, target) /\ is_dir(target)
             THEN [s |-> s1, err |-> "TargetIsDirectory", ret |-> ""]
             ELSE IF ~ok
             THEN [s |-> s1, err |-> "FileWriteError", ret |-> ""]
             ELSE [s |-> [s1 EXCEPT !.disk =
                            write_text(s.disk, target, s.buffers[idx + 1])],
                   err |-> "none", ret |-> target]

\* The active index as it would be if close_file selected the document that
\* took the place of the removed one.
close_active_right_neighbour(n, idx) == IF n > 0 THEN Min(idx, n - 1) ELSE 0

\* The active index close_file sets after removing the file at idx, n files
\* remaining.
close_active(n, idx) == IF n > 0 THEN Max(0, idx - 1) ELSE 0

\* A sequence without its element at 0-based position i.
RemoveAt(q, i) == SubSeq(q, 1, i) \o SubSeq(q, i + 2, Len(q))

\* FileManager.close_file
close_file(s, index) ==
  LET idx == index_or_active(s, index)
  IN IF 0 <= idx /\ idx < Len(s.files)
     THEN [s EXCEPT !.files = RemoveAt(s.files, idx),
                    !.buffers = RemoveAt(s.buffers, idx),
                    !.active_index = close_active(Len(s.files) - 1, idx)]
     ELSE s

\* -------------------------------------------------------------- tab widget
\* A tab is [plus, title, text, cur, timer, quiet, md]: plus marks the bare
\* QWidget of the service tab, the others are EditorTabs with the surface
\* text, the cursor <<block, column>>, the sort timer (-1 when inactive, else
\* the ticks left) and md (is_markdown).  quiet counts the ticks since the
\* surface last emitted textChanged, up to SortDelay.

\* QWidget() added under the title "+".
PlusWidget ==
  [plus |-> TRUE, title |-> "+", text |-> <<>>, cur |-> <<0, 0>>,
   timer |-> -1, quiet |-> SortDelay, md |-> FALSE]

\* _on_text_changed as it would be if it left a running timer alone.
on_text_changed_no_restart(timer) == IF timer >= 0 THEN timer ELSE SortDelay

\* CodeEditor._on_text_changed: the timer after stop() and start(500).
on_text_changed_not_armed(timer) == timer

on_text_changed(timer) == SortDelay

\* EditorTab(initial_text, ...): the constructor's setPlainText emits
\* textChanged, which only the editor's own slot hears yet.
EditorTab(initial_text, title, md) ==
  [plus |-> FALSE, title |-> title, text |-> initial_text, cur |-> <<0, 0>>,
   timer |-> on_text_changed(-1), quiet |-> 0, md |-> md]

\* isinstance(self.tabs.widget(i), EditorTab)
is_editor(s, i) == 0 <= i /\ i < Len(s.tabs) /\ ~s.tabs[i + 1].plus

\* MainWindow._is_plus_tab
is_plus_tab(s, index) ==
  0 <= index /\ index < Len(s.tabs) /\ s.tabs[index + 1].title = "+"

\* MainWindow._sync_current_editor_to_manager
sync_current_editor_to_manager(s) ==
  LET idx == s.current
  IN IF idx < 0 THEN s
     ELSE IF is_editor(s, idx)
     THEN set_buffer(s, s.tabs[idx + 1].text, idx)
     ELSE s

\* _on_tab_changed as it would be without the test for the service tab.
on_tab_changed_any_tab(s, index) ==
  IF index < 0 THEN s
  ELSE [sync_current_editor_to_manager(s) EXCEPT !.active_index = index]

\* MainWindow._on_tab_changed, the slot of QTabWidget.currentChanged.
on_tab_changed(s, index) ==
  IF index < 0 THEN s
  ELSE IF is_plus_tab(s, index) THEN s
  ELSE [sync_current_editor_to_manager(s) EXCEPT !.active_index = index]

\* QTabWidget.setCurrentIndex: currentChanged is emitted when the index is
\* valid and differs from the current one.
setCurrentIndex(s, i) ==
  IF 0 <= i /\ i < Len(s.tabs) /\ i # s.current
  THEN on_tab_changed([s EXCEPT !.current = i], i)
  ELSE s

\* QTabWidget.insertTab at 0-based position i: the first tab becomes current
\* (currentChanged is emitted), a tab inserted at or before the current one
\* shifts the current index without a signal.
insertTab(s, i, tab) ==
  LET ts == SubSeq(s.tabs, 1, i) \o <<tab>> \o SubSeq(s.tabs, i + 1, Len(s.tabs))
  IN IF Len(s.tabs) = 0
     THEN on_tab_changed([s EXCEPT !.tabs = ts, !.current = i], i)
     ELSE IF i <= s.current
     THEN [s EXCEPT !.tabs = ts, !.current = s.current + 1]
     ELSE [s EXCEPT !.tabs = ts]

\* QTabWidget.addTab
addTab(s, tab) == insertTab(s, Len(s.tabs), tab)

\* QTabWidget.removeTab with the default SelectRightTab: removing the current
\* tab makes its right neighbour current (the left one when it was last),
\* removing a tab before the current one shifts the current index; both emit
\* currentChanged.
removeTab(s, i) ==
  LET ts == RemoveAt(s.tabs, i)
      n == Len(ts)
  IN IF i < 0 \/ i >= Len(s.tabs) THEN s
     ELSE IF i = s.current
     THEN LET c == IF n = 0 THEN -1 ELSE IF i < n THEN i ELSE n - 1
          IN on_tab_changed([s EXCEPT !.tabs = ts, !.current = c], c)
     ELSE IF i < s.current
     THEN on_tab_changed([s EXCEPT !.tabs = ts, !.current = s.current - 1],
                         s.current - 1)
     ELSE [s EXCEPT !.tabs = ts]

\* The loops of _create_editor_tab and _ensure_plus_tab: 0-based index of
\* the first tab _is_plus_tab accepts, -1 when there is none.
plus_index(s) ==
  IF \E i \in 0..(Len(s.tabs) - 1) : is_plus_tab(s, i)
  THEN CHOOSE i \in 0..(Len(s.tabs) - 1) :
         is_plus_tab(s, i) /\ \A j \in 0..(i - 1) : ~is_plus_tab(s, j)
  ELSE -1

\* MainWindow._ensure_plus_tab
ensure_plus_tab(s) ==
  LET i == plus_index(s)
      s1 == IF i >= 0 THEN removeTab(s, i) ELSE s
  IN addTab(s1, PlusWidget)

\* MainWindow._create_editor_tab: the new session and the tab's index.
create_editor_tab(s, text, title, md) ==
  LET plus_idx == plus_index(s)
      index == IF plus_idx >= 0 THEN plus_idx ELSE Len(s.tabs)
  IN [s |-> insertTab(s, index, EditorTab(text, title, md)), ret |-> index]

\* MainWindow._refresh_tab_title
refresh_tab_title(s, index) ==
  IF index < 0 \/ index >= Len(s.files) THEN s
  ELSE LET path == s.files[index + 1]
           title == IF path_bool(path) /\ path_name(path) # ""
                    THEN path_name(path) ELSE "untitled"
       IN [s EXCEPT !.tabs[index + 1].title = title]

\* ---------------------------------------------------------- editor events

\* MainWindow._on_editor_text_changed with the sender found at tab idx
\* (-1 when it is in no tab); ok says whether the disk write succeeds.  It
\* gives [s, err]: err is "ignored" for the early return, "unsaved" when no
\* write was tried, else what save_file met, which the handler swallows.
on_editor_text_changed(s, idx, ok) ==
  IF idx < 0 \/ is_plus_tab(s, idx) THEN [s |-> s, err |-> "ignored"]
  ELSE LET s1 == set_buffer(s, s.tabs[idx + 1].text, idx)
       IN IF 0 <= idx /\ idx < Len(s1.files)
          THEN LET path == s1.files[idx + 1]
               IN IF path_bool(path) /\ ~is_dir(path)
                  THEN save_file(s1, FALSE, EmptyPath, idx, ok)
                  ELSE [s |-> s1, err |-> "unsaved"]
          ELSE [s |-> s1, err |-> "unsaved"]

\* The surface of tab i given a new text and cursor, with textChanged
\* emitted: the editor's slot restarts the timer, then the window's slot
\* runs.
text_changed(s, i, text, cur, ok) ==
  LET t == s.tabs[i + 1]
      s1 == [s EXCEPT !.tabs[i + 1] =
               [t EXCEPT !.text = text, !.cur = cur,
                         !.timer = on_text_changed(t.timer), !.quiet = 0]]
  IN on_editor_text_changed(s1, i, ok)

\* QPlainTextEdit.setPlainText with signals enabled: the cursor goes to the
\* document start.
setPlainText(s, i, text, ok) == text_changed(s, i, text, <<0, 0>>, ok).s

\* The timer after _sort_lines as it would be without blockSignals: the
\* replacement emits textChanged and the countdown starts again.
timer_after_sort_signalled(timer) == SortDelay

\* The timer of an editor after _sort_lines ran: setPlainText is bracketed
\* by blockSignals, so _on_text_changed does not run.
timer_after_sort(timer) == timer

\* _sort_lines as it would be if the timeout sorted the editor of the
\* current tab rather than the editor that owns the timer.
sort_current_tab(s, i) ==
  LET c == s.current
  IN IF is_editor(s, c)
     THEN LET t == s.tabs[c + 1]
              r == sort_lines(t.text, t.cur)
          IN [s EXCEPT !.tabs[c + 1] = [t EXCEPT !.text = r.text, !.cur = r.cur]]
     ELSE s

\* CodeEditor._sort_lines on the editor of tab i.
sort_tab(s, i) ==
  LET t == s.tabs[i + 1]
      r == sort_lines(t.text, t.cur)
  IN [s EXCEPT !.tabs[i + 1] =
        [t EXCEPT !.text = r.text, !.cur = r.cur,
                  !.timer = timer_after_sort(t.timer)]]

\* EditorTab.set_text on the editor tab i.
set_text(s, i, text, ok) ==
  LET s1 == setPlainText(s, i, text, ok)
  IN IF ~s.tabs[i + 1].md THEN sort_tab(s1, i) ELSE s1

\* ---------------------------------------------------------------- handlers
\* A handler gives [s, err]: the session it leaves and the error it met,
\* "none" when it met none.  An err of Escaped reached the event loop.

Escaped == {"IndexError", "TypeError"}

\* MainWindow._on_new_file
on_new_file(s) ==
  LET s1 == sync_current_editor_to_manager(s)
      s2 == new_file(s1)
      c == create_editor_tab(s2, <<>>, "untitled", FALSE)
      s3 == ensure_plus_tab(c.s)
  IN setCurrentIndex(s3, c.ret)

\* MainWindow._on_open_file_dialog; path_str is what the dialog returned, ""
\* when it was cancelled.
on_open_file_dialog(s, path_str, ok) ==
  LET s1 == sync_current_editor_to_manager(s)
      before_count == Len(s1.files)
      path == PathOf(path_str)
      o == open_file(s1, path)
      idx == o.ret
      text == get_buffer(o.s, idx)
      is_new == Len(o.s.files) > before_count
      shown == IF is_editor(o.s, idx) THEN set_text(o.s, idx, text, ok) ELSE o.s
      c == create_editor_tab(o.s, text, path_name(path), is_md(path))
      s2 == IF ~is_new /\ 0 <= idx /\ idx < Len(o.s.tabs)
            THEN [setCurrentIndex(shown, idx) EXCEPT !.active_index = idx]
            ELSE [setCurrentIndex(ensure_plus_tab(c.s), c.ret)
                    EXCEPT !.active_index = idx]
  IN IF path_str = "" THEN s1 ELSE refresh_tab_title(s2, idx)

\* _on_save_as as it would be without `if not path_str: return`: a cancelled
\* dialog goes on to save_file with Path("").
on_save_as_no_cancel(s, path_str, ok) ==
  LET s1 == sync_current_editor_to_manager(s)
      idx == s1.current
      r == save_file(s1, TRUE, PathOf(path_str), idx, ok)
  IN IF idx < 0 THEN [s |-> s1, err |-> "none"]
     ELSE IF r.err # "none" THEN r
     ELSE [s |-> refresh_tab_title(r.s, idx), err |-> "none"]

\* MainWindow._on_save_as; path_str is what the dialog returned.
on_save_as(s, path_str, ok) ==
  LET s1 == sync_current_editor_to_manager(s)
      idx == s1.current
      r == save_file(s1, TRUE, PathOf(path_str), idx, ok)
  IN IF idx < 0 THEN [s |-> s1, err |-> "none"]
     ELSE IF path_str = "" THEN [s |-> s1, err |-> "cancelled"]
     ELSE IF r.err # "none" THEN r
     ELSE [s |-> refresh_tab_title(r.s, idx), err |-> "none"]

\* MainWindow._on_save; path_str is what the Save-As dialog would return.
on_save(s, path_str, ok) ==
  LET s1 == sync_current_editor_to_manager(s)
      idx == s1.current
      r == save_file(s1, FALSE, EmptyPath, idx, ok)
  IN IF idx < 0 THEN [s |-> s1, err |-> "none"]
     ELSE IF idx >= Len(s1.files) THEN [s |-> s1, err |-> "IndexError"]
     ELSE IF ~path_bool(s1.files[idx + 1]) THEN on_save_as(s1, path_str, ok)
     ELSE IF r.err # "none" THEN r
     ELSE [s |-> refresh_tab_title(r.s, idx), err |-> "none"]

\* MainWindow._on_tab_close_requested
on_tab_close_requested(s, index) ==
  IF index < 0 THEN s
  ELSE IF is_plus_tab(s, index) THEN s
  ELSE LET s1 == IF is_editor(s, index)
                 THEN set_buffer(s, s.tabs[index + 1].text, index)
                 ELSE s
           s2 == close_file(s1, index)
       IN ensure_plus_tab(removeTab(s2, index))

\* MainWindow._on_close_current_tab
on_close_current_tab(s) ==
  IF s.current >= 0 THEN on_tab_close_requested(s, s.current) ELSE s

\* MainWindow._on_new_tab_menu; action is the menu entry chosen.
on_new_tab_menu(s, action, path_str, ok) ==
  IF action = "new" THEN on_new_file(s)
  ELSE IF action = "open" THEN on_open_file_dialog(s, path_str, ok)
  ELSE s

\* MainWindow._on_tab_bar_clicked
on_tab_bar_clicked(s, index, action, path_str, ok) ==
  IF is_plus_tab(s, index)
  THEN on_new_tab_menu(setCurrentIndex(s, s.active_index), action, path_str, ok)
  ELSE s

\* str.strip() of a tab title.
strip(title) ==
  IF title = " + " THEN "+"
  ELSE IF title = "  " THEN ""
  ELSE title

\* MainWindow._on_tab_bar_double_clicked; new_title and accepted are what the
\* input dialog returned.
on_tab_bar_double_clicked(s, index, new_title, accepted) ==
  IF index < 0 THEN s
  ELSE IF is_plus_tab(s, index) THEN s
  ELSE IF accepted /\ strip(new_title) # ""
  THEN [s EXCEPT !.tabs[index + 1].title = strip(new_title)]
  ELSE s

\* ------------------------------------------------------------ persistence
\* The configuration file is [kind, data].  kind is "absent"; "unparsable"
\* (not JSON); "not_record" (JSON, but not an object: data.get raises);
\* "bad_int" (an object whose active_index or font_size int() rejects);
\* "wrong_shape" (an object with a field of another JSON type that the code
\* accepts); or "ok".  data is the record the code reads from the file.

\* AppState(last_files=[], active_index=0, titles=[], buffers=[], font_size=12)
DefaultState ==
  [last_files |-> <<>>, active_index |-> 0, titles |-> <<>>,
   buffers |-> <<>>, font_size |-> DefaultFontSize]

\* ConfigManager.__init__ and _load: the state after construction.  The
\* fields of a parsed record are taken as they are, with no check of their
\* shape; a missing file and every exception give the default state.
load(cf) == IF cf.kind \in {"ok", "wrong_shape"} THEN cf.data ELSE DefaultState

\* ConfigManager.save as it would be if it wrote the new entries after the
\* entries the file held.
config_save_appending(st, cf, args) ==
  IF Len(args) # 5
  THEN [state |-> st, file |-> cf, err |-> "TypeError"]
  ELSE LET new == [last_files |-> load(cf).last_files \o args[1],
                   active_index |-> args[2],
                   titles |-> load(cf).titles \o args[3],
                   buffers |-> load(cf).buffers \o args[4],
                   font_size |-> args[5]]
       IN [state |-> new, file |-> [kind |-> "ok", data |-> new],
           err |-> "none"]

\* ConfigManager.save called with the positional arguments args: the new
\* [state, file] and the error raised.  The signature takes five.
config_save(st, cf, args) ==
  IF Len(args) # 5
  THEN [state |-> st, file |-> cf, err |-> "TypeError"]
  ELSE LET new == [last_files |-> args[1], active_index |-> args[2],
                   titles |-> args[3], buffers |-> args[4],
                   font_size |-> args[5]]
       IN [state |-> new, file |-> [kind |-> "ok", data |-> new],
           err |-> "none"]

\* FileManager.save_state called with the positional arguments args.  The
\* signature takes one, titles, and passes four on to ConfigManager.save.
save_state(s, st, cf, args) ==
  IF Len(args) # 1
  THEN [state |-> st, file |-> cf, err |-> "TypeError"]
  ELSE config_save(st, cf, <<s.files, s.active_index, args[1], s.buffers>>)

\* The loops of _on_font_size_changed and closeEvent: the titles of the tabs
\* _is_plus_tab does not accept, in order.
tab_titles(s) ==
  LET keep == SelectSeq([i \in 1..Len(s.tabs) |-> i],
                        LAMBDA i : ~is_plus_tab(s, i - 1))
  IN [k \in 1..Len(keep) |-> s.tabs[keep[k]].title]

\* MainWindow._on_font_size_changed: [s, state, file, err].
on_font_size_changed(s, st, cf, font_size) ==
  LET s1 == sync_current_editor_to_manager(s)
      r == save_state(s1, st, cf, <<tab_titles(s1), font_size>>)
  IN [s |-> s1, state |-> r.state, file |-> r.file, err |-> r.err]

\* MainWindow.closeEvent: [s, state, file, err].  Every editor was built
\* with the point size of the loaded state.
closeEvent(s, st, cf) ==
  LET s1 == sync_current_editor_to_manager(s)
      idx == s1.current
      font_size == IF idx >= 0 /\ is_editor(s1, idx)
                   THEN st.font_size ELSE DefaultFontSize
      s2 == IF idx >= 0 THEN [s1 EXCEPT !.active_index = idx] ELSE s1
      r == save_state(s2, st, cf, <<tab_titles(s1), font_size>>)
  IN [s |-> s2, state |-> r.state, file |-> r.file, err |-> r.err]

\* The point size keyPressEvent sets for Ctrl+Plus (step 1) or Ctrl+Minus
\* (step -1).
new_point_size(size, step) == Max(MinFontSize, Min(size + step, MaxFontSize))

\* ----------------------------------------------------------- construction

\* The text of entry i as it would be if a persisted buffer that is not
\* empty were preferred to the file.
restored_text_prefers_snapshot(st, d, i) ==
  LET p_str == IF i < Len(st.last_files) THEN st.last_files[i + 1] ELSE ""
      buf == IF i < Len(st.buffers) THEN st.buffers[i + 1] ELSE <<>>
      path == PathOf(p_str)
  IN IF buf = <<>> /\ p_str # "" /\ exists(d, path) /\ is_file(d, path)
     THEN read_text(d, path)
     ELSE buf

\* One round of the loop of _restore_from_config: the text of entry i
\* (0-based).
restored_text(st, d, i) ==
  LET p_str == IF i < Len(st.last_files) THEN st.last_files[i + 1] ELSE ""
      buf == IF i < Len(st.buffers) THEN st.buffers[i + 1] ELSE <<>>
      path == PathOf(p_str)
  IN IF p_str # "" /\ exists(d, path) /\ is_file(d, path)
     THEN read_text(d, path)
     ELSE buf

\* _restore_from_config as it would be without the new_file() for an empty
\* snapshot.
restore_from_config_no_default(st, d) ==
  LET max_len == Max(Len(st.last_files), Len(st.buffers))
      fs == [i \in 1..max_len |->
               PathOf(IF i <= Len(st.last_files) THEN st.last_files[i] ELSE "")]
      bs == [i \in 1..max_len |-> restored_text(st, d, i - 1)]
      s0 == [files |-> fs, buffers |-> bs, active_index |-> 0,
             tabs |-> <<>>, current |-> -1, disk |-> d]
  IN IF 0 <= st.active_index /\ st.active_index < max_len
     THEN [s0 EXCEPT !.active_index = st.active_index]
     ELSE s0

\* _restore_from_config as it would be if it took each list at its own
\* length and did not pad the shorter one.
restore_from_config_own_lengths(st, d) ==
  LET fs == [i \in 1..Len(st.last_files) |-> PathOf(st.last_files[i])]
      bs == [i \in 1..Len(st.buffers) |-> restored_text(st, d, i - 1)]
      s0 == [files |-> fs, buffers |-> bs, active_index |-> 0,
             tabs |-> <<>>, current |-> -1, disk |-> d]
  IN IF Len(fs) = 0 THEN new_file(s0)
     ELSE IF 0 <= st.active_index /\ st.active_index < Len(fs)
     THEN [s0 EXCEPT !.active_index = st.active_index]
     ELSE s0

\* FileManager.__init__ and _restore_from_config: the session without tabs.
restore_from_config(st, d) ==
  LET max_len == Max(Len(st.last_files), Len(st.buffers))
      fs == [i \in 1..max_len |->
               PathOf(IF i <= Len(st.last_files) THEN st.last_files[i] ELSE "")]
      bs == [i \in 1..max_len |-> restored_text(st, d, i - 1)]
      s0 == [files |-> fs, buffers |-> bs, active_index |-> 0,
             tabs |-> <<>>, current |-> -1, disk |-> d]
  IN IF max_len = 0 THEN new_file(s0)
     ELSE IF 0 <= st.active_index /\ st.active_index < max_len
     THEN [s0 EXCEPT !.active_index = st.active_index]
     ELSE s0

\* The title _restore_tabs_from_files gives tab i (0-based).
restored_title(s, st, i) ==
  LET path == s.files[i + 1]
  IN IF i < Len(st.titles) /\ strip(st.titles[i + 1]) # ""
     THEN strip(st.titles[i + 1])
     ELSE IF path_bool(path) /\ path_name(path) # ""
     THEN path_name(path) ELSE "untitled"

\* The first n rounds of the loop of _restore_tabs_from_files.
RECURSIVE restore_tabs(_, _, _)
restore_tabs(s, st, n) ==
  IF n = 0 THEN s
  ELSE LET s1 == restore_tabs(s, st, n - 1)
           i == n - 1
       IN create_editor_tab(s1, get_buffer(s1, i), restored_title(s1, st, i),
                            path_bool(s1.files[i + 1]) /\ is_md(s1.files[i + 1])).s

\* MainWindow.__init__ and _restore_tabs_from_files.
restore_tabs_from_files(s, st) ==
  LET s1 == ensure_plus_tab(restore_tabs(s, st, Len(s.files)))
      active_index == st.active_index
      n == Len(s1.tabs)
  IN IF 0 <= active_index /\ active_index < n
     THEN IF ~is_plus_tab(s1, active_index)
          THEN [setCurrentIndex(s1, active_index)
                  EXCEPT !.active_index = active_index]
          ELSE IF active_index > 0
          THEN [setCurrentIndex(s1, active_index - 1)
                  EXCEPT !.active_index = active_index - 1]
          ELSE IF n > 1
          THEN [setCurrentIndex(s1, 0) EXCEPT !.active_index = 0]
          ELSE s1
     ELSE IF n > 1
     THEN [setCurrentIndex(s1, 0) EXCEPT !.active_index = 0]
     ELSE s1

\* run_app: ConfigManager(), FileManager(config), MainWindow(...).
construct(cf, d) == restore_tabs_from_files(restore_from_config(load(cf), d), load(cf))

\* ----------------------------------------------------- command-line files

\* The loop as it would be if it compared the open paths as they are
\* spelled.
find_resolved_by_spelling(fs, file_path) ==
  IF \E i \in 1..Len(fs) : path_bool(fs[i]) /\ fs[i] = file_path
  THEN (CHOOSE i \in 1..Len(fs) :
          /\ path_bool(fs[i]) /\ fs[i] = file_path
          /\ \A j \in 1..(i - 1) : ~(path_bool(fs[j]) /\ fs[j] = file_path)) - 1
  ELSE -1

\* The loop `for i, f in enumerate(files): if f and f.resolve() == file_path`:
\* the 0-based index of the first open file with that canonical path, -1
\* when there is none.
find_resolved(fs, file_path) ==
  IF \E i \in 1..Len(fs) : path_bool(fs[i]) /\ resolve(fs[i]) = file_path
  THEN (CHOOSE i \in 1..Len(fs) :
          /\ path_bool(fs[i]) /\ resolve(fs[i]) = file_path
          /\ \A j \in 1..(i - 1) :
               ~(path_bool(fs[j]) /\ resolve(fs[j]) = file_path)) - 1
  ELSE -1

\* The tab search of open_files_from_args: the first tab _is_plus_tab does
\* not accept whose index is that of a file with the canonical path, -1
\* when there is none.
find_tab(s, file_path) ==
  LET hit(i) == /\ ~is_plus_tab(s, i)
                /\ i < Len(s.files)
                /\ path_bool(s.files[i + 1])
                /\ resolve(s.files[i + 1]) = file_path
  IN IF \E i \in 0..(Len(s.tabs) - 1) : hit(i)
     THEN CHOOSE i \in 0..(Len(s.tabs) - 1) :
            hit(i) /\ \A j \in 0..(i - 1) : ~hit(j)
     ELSE -1

\* One round of the loop of open_files_from_args, for the argument arg; ok
\* says whether a disk write of the auto-save succeeds.
open_file_from_arg(s, arg, ok) ==
  LET file_path == resolve(PathOf(arg))
      manager_index == find_resolved(s.files, file_path)
      text == read_text(s.disk, file_path)
      s1 == set_buffer(s, text, manager_index)
      tab_index == find_tab(s1, file_path)
      shown == IF is_editor(s1, tab_index)
               THEN set_text(s1, tab_index, text, ok) ELSE s1
      c == create_editor_tab(s1, text, path_name(file_path), is_md(file_path))
      o == open_file(s, file_path)
      n == create_editor_tab(o.s, get_buffer(o.s, o.ret),
                             path_name(file_path), is_md(file_path))
  IN IF ~(exists(s.disk, file_path) /\ is_file(s.disk, file_path)) THEN s
     ELSE IF manager_index >= 0
     THEN IF tab_index >= 0
          THEN [setCurrentIndex(shown, tab_index)
                  EXCEPT !.active_index = tab_index]
          ELSE [setCurrentIndex(ensure_plus_tab(c.s), c.ret)
                  EXCEPT !.active_index = manager_index]
     ELSE [setCurrentIndex(ensure_plus_tab(n.s), n.ret)
             EXCEPT !.active_index = o.ret]

\* run_app.open_files_from_args with sys.argv[1:] = args.
RECURSIVE open_files_from_args(_, _, _)
open_files_from_args(s, args, ok) ==
  IF Len(args) = 0 THEN s
  ELSE open_files_from_args(open_file_from_arg(s, Head(args), ok), Tail(args), ok)

\* ------------------------------------------------------------------ inputs

\* The text the user types.
TextB == <<"b", NL, "a", "-">>

\* What an edit leaves: the text typed and the cursor <<block, column>>.
EditInputs == {[text |-> TextB, cur |-> <<0, 0>>]}

\* What the rename dialog returns.
RenameInputs == {" + ", "  "}

\* What the open dialog returns: a file name, or "" when cancelled.
OpenInputs == {"/w/a", ""}

\* What the save dialog returns.
SaveInputs == {"/w/a", ""}

\* The paths a caller of FileManager passes.
PathInputs == Paths

\* The texts a caller of FileManager passes.
TextInputs == {<<>>, TextB}

\* The indices a caller of FileManager passes; NoIndex is None.
IndexInputs == {NoIndex} \cup (-1..MaxDocsFM)

\* The disks a run can start from.
Disks == [DiskFiles -> {NoFile, [ex |-> TRUE, text |-> TextB]}]

\* The snapshot an earlier run left: a bound and an unbound document.
SnapshotTwo ==
  [last_files |-> <<"/w/a", ".">>, active_index |-> 1,
   titles |-> <<"a", "untitled">>, buffers |-> <<<<>>, TextB>>,
   font_size |-> DefaultFontSize]

\* The snapshot of a run that had one bound document open.
SnapshotOne ==
  [last_files |-> <<"/w/a">>, active_index |-> 0, titles |-> <<"a">>,
   buffers |-> <<TextB>>, font_size |-> DefaultFontSize]

\* CONFIG_FILE before the first run.
NoConfigFile == [kind |-> "absent", data |-> DefaultState]

\* The configuration files a run can start from.
ConfigFiles == {[kind |-> "ok", data |-> SnapshotTwo]}

\* ------------------------------------------------------------------- state

VARIABLES
  files,         \* FileManager._files
  buffers,       \* FileManager._buffers
  active_index,  \* FileManager._active_index
  tabs,          \* MainWindow.tabs: the tabs in order
  current,       \* MainWindow.tabs.currentIndex()
  disk,          \* the regular files: DiskFiles -> [ex, text]
  config_file,   \* CONFIG_FILE
  state,         \* ConfigManager._state
  phase,         \* "running", or "aborted" / "closed" once the process ended
  ev             \* the last event handled: [op, arg, path, err]

vars ==
  <<files, buffers, active_index, tabs, current, disk, config_file, state,
    phase, ev>>

\* The session record of the current state.
St ==
  [files |-> files, buffers |-> buffers, active_index |-> active_index,
   tabs |-> tabs, current |-> current, disk |-> disk]

\* The next state holds the session s.
Becomes(s) ==
  /\ files' = s.files
  /\ buffers' = s.buffers
  /\ active_index' = s.active_index
  /\ tabs' = s.tabs
  /\ current' = s.current
  /\ disk' = s.disk

\* An unhandled exception in a slot or an event handler ends the process
\* (PyQt6 calls qFatal); run_app installs no excepthook.
PhaseAfter(err) == IF err \in Escaped THEN "aborted" ELSE "running"

\* The session of a process that ended: its objects are gone, the disk d
\* stays.
Gone(d) ==
  [files |-> <<>>, buffers |-> <<>>, active_index |-> 0, tabs |-> <<>>,
   current |-> -1, disk |-> d]

\* The session a handler result r = [s, err] leaves.
After(r) == IF r.err \in Escaped THEN Gone(r.s.disk) ELSE r.s

Event(op, arg, path, err) ==
  [op |-> op, arg |-> arg, path |-> path, err |-> err]

Running == phase = "running"

\* run_app with the configuration file cf and the disk d: the window is up.
Start(cf, d) ==
  LET s == construct(cf, d)
  IN /\ files = s.files
     /\ buffers = s.buffers
     /\ active_index = s.active_index
     /\ tabs = s.tabs
     /\ current = s.current
     /\ disk = s.disk
     /\ config_file = cf
     /\ state = load(cf)
     /\ phase = "running"
     /\ ev = Event("start", -1, "", "none")

Init == \E cf \in ConfigFiles, d \in Disks : Start(cf, d)

\* ----------------------------------------------------------------- actions

\* Ctrl+N, with fewer than n documents open.
NewFileWithin(n) ==
  /\ Running
  /\ Len(files) < n
  /\ Becomes(on_new_file(St))
  /\ ev' = Event("new", -1, "", "none")
  /\ UNCHANGED <<config_file, state, phase>>

NewFile == NewFileWithin(MaxDocs)

\* Ctrl+O; a new document is opened with fewer than n open.
OpenFileDialogWithin(n) ==
  /\ Running
  /\ \E path_str \in OpenInputs, ok \in BOOLEAN :
       /\ \/ Len(files) < n
          \/ path_str = ""
          \/ find_open(files, PathOf(path_str)) >= 0
       /\ LET s == on_open_file_dialog(St, path_str, ok)
          IN /\ Becomes(s)
             /\ ev' = Event("open", -1, "",
                            IF path_str = "" THEN "cancelled"
                            ELSE IF Len(s.files) = Len(files) THEN "dedup"
                            ELSE "none")
  /\ UNCHANGED <<config_file, state, phase>>

OpenFileDialog == OpenFileDialogWithin(MaxDocs)

\* Ctrl+S
Save ==
  /\ Running
  /\ \E path_str \in SaveInputs, ok \in BOOLEAN :
       LET r == on_save(St, path_str, ok)
       IN /\ Becomes(After(r))
          /\ ev' = Event("save", -1, "", r.err)
          /\ phase' = PhaseAfter(r.err)
  /\ UNCHANGED <<config_file, state>>

\* Ctrl+Shift+S
SaveAs ==
  /\ Running
  /\ \E path_str \in SaveInputs, ok \in BOOLEAN :
       LET r == on_save_as(St, path_str, ok)
       IN /\ Becomes(After(r))
          /\ ev' = Event("save_as", -1, "", r.err)
          /\ phase' = PhaseAfter(r.err)
  /\ UNCHANGED <<config_file, state>>

\* Ctrl+Q
CloseCurrentTab ==
  /\ Running
  /\ Becomes(on_close_current_tab(St))
  /\ ev' = Event("close_tab", -1, "", "none")
  /\ UNCHANGED <<config_file, state, phase>>

\* The user makes tab i current (a click, Ctrl+Tab).
SelectTab ==
  /\ Running
  /\ \E i \in 0..(Len(tabs) - 1) :
       /\ i # current
       /\ Becomes(setCurrentIndex(St, i))
       /\ ev' = Event("select", -1, "", "none")
  /\ UNCHANGED <<config_file, state, phase>>

\* A click on the service tab: tabBarClicked, then the menu; a new document
\* is made with fewer than n open.
TabBarClickedWithin(n) ==
  /\ Running
  /\ \E index \in 0..(Len(tabs) - 1), action \in {"new", "open", "none"},
        path_str \in OpenInputs, ok \in BOOLEAN :
       /\ is_plus_tab(St, index)
       /\ action = "new" => Len(files) < n
       /\ action = "open" =>
            \/ Len(files) < n
            \/ path_str = ""
            \/ find_open(files, PathOf(path_str)) >= 0
       /\ action # "open" => path_str = "" /\ ok
       /\ Becomes(on_tab_bar_clicked(St, index, action, path_str, ok))
       /\ ev' = Event("plus_menu", -1, "", action)
  /\ UNCHANGED <<config_file, state, phase>>

TabBarClicked == TabBarClickedWithin(MaxDocs)

\* A double click on the title of the current tab and the rename dialog.
TabBarDoubleClicked ==
  /\ Running
  /\ current >= 0
  /\ \E new_title \in RenameInputs, accepted \in BOOLEAN :
       /\ Becomes(on_tab_bar_double_clicked(St, current, new_title, accepted))
       /\ ev' = Event("rename", -1, "", "none")
  /\ UNCHANGED <<config_file, state, phase>>

\* The user changes the text of the current editor.
Edit ==
  /\ Running
  /\ is_editor(St, current)
  /\ \E e \in EditInputs, ok \in BOOLEAN :
       /\ e.text # tabs[current + 1].text
       /\ LET r == text_changed(St, current, e.text, e.cur, ok)
          IN /\ Becomes(r.s)
             /\ ev' = Event("edit", current, "", r.err)
  /\ UNCHANGED <<config_file, state, phase>>

\* The single-shot sort timer of the editor of tab i expires.
SortTimeoutOf(i) ==
  /\ Running
  /\ is_editor(St, i)
  /\ tabs[i + 1].timer = 0
  /\ Becomes(sort_tab([St EXCEPT !.tabs[i + 1].timer = -1], i))
  /\ ev' = Event("sort", i, "", "none")
  /\ UNCHANGED <<config_file, state, phase>>

\* The single-shot sort timer of some editor expires.
SortTimeout == \E i \in 0..(Len(tabs) - 1) : SortTimeoutOf(i)

\* One tick passes: every running timer counts down, every surface is quiet
\* for one more tick.
Tick ==
  /\ Running
  /\ \E i \in 1..Len(tabs) :
       ~tabs[i].plus /\ (tabs[i].timer > 0 \/ tabs[i].quiet < SortDelay)
  /\ tabs' = [i \in 1..Len(tabs) |->
                IF tabs[i].plus THEN tabs[i]
                ELSE [tabs[i] EXCEPT
                        !.timer = IF @ > 0 THEN @ - 1 ELSE @,
                        !.quiet = Min(@ + 1, SortDelay)]]
  /\ ev' = Event("tick", -1, "", "none")
  /\ UNCHANGED <<files, buffers, active_index, current, disk, config_file,
                 state, phase>>

\* Ctrl+Plus / Ctrl+Minus in the current editor.
FontSizeChanged ==
  /\ Running
  /\ is_editor(St, current)
  /\ \E step \in {-1, 1} :
       LET size == new_point_size(state.font_size, step)
           r == on_font_size_changed(St, state, config_file, size)
       IN /\ Becomes(After(r))
          /\ state' = r.state
          /\ config_file' = r.file
          /\ ev' = Event("font_size", -1, "", r.err)
          /\ phase' = PhaseAfter(r.err)

\* The window is closed.
CloseEvent ==
  /\ Running
  /\ LET r == closeEvent(St, state, config_file)
     IN /\ Becomes(Gone(r.s.disk))
        /\ state' = r.state
        /\ config_file' = r.file
        /\ ev' = Event("closeEvent", -1, "", r.err)
        /\ phase' = IF r.err \in Escaped THEN "aborted" ELSE "closed"

\* The application with up to MaxDocs documents.
Next ==
  \/ NewFile
  \/ OpenFileDialog
  \/ Save
  \/ SaveAs
  \/ CloseCurrentTab
  \/ SelectTab
  \/ TabBarClicked
  \/ Edit
  \/ SortTimeout
  \/ Tick
  \/ FontSizeChanged
  \/ CloseEvent

Spec == Init /\ [][Next]_vars

\* The timer of the editor of tab i has expired: the guard of
\* SortTimeoutOf(i), which is ENABLED <<SortTimeoutOf(i)>>_vars, since a
\* timeout always takes the timer from 0 to -1.
SortDue(i) == Running /\ is_editor(St, i) /\ tabs[i + 1].timer = 0

\* The handlers but Save As, which starts no timer and changes no surface.
NextLive ==
  \/ NewFile
  \/ OpenFileDialog
  \/ Save
  \/ CloseCurrentTab
  \/ SelectTab
  \/ TabBarClicked
  \/ Edit
  \/ SortTimeout
  \/ Tick
  \/ FontSizeChanged
  \/ CloseEvent

\* The application with its timers running: a single-shot timer that was
\* started counts down and fires, whatever else happens. The second
\* condition is WF_vars(SortTimeoutOf(i)) for the timer of every editor, with
\* its enabling condition written out.
SpecLive ==
  /\ Init
  /\ [][NextLive]_vars
  /\ WF_vars(Tick)
  /\ \A i \in 0..(MaxDocs - 1) :
       []<>(~SortDue(i)) \/ []<><<SortTimeoutOf(i)>>_vars

\* ------------------------------------------- the application, tabs renamed

InitSingle == \E d \in Disks : Start(NoConfigFile, d)

NewFileSingle == NewFileWithin(MaxDocsSingle)

OpenFileDialogSingle == OpenFileDialogWithin(MaxDocsSingle)

TabBarClickedSingle == TabBarClickedWithin(MaxDocsSingle)

\* The application with up to MaxDocsSingle documents and the rename dialog.
NextSingle ==
  \/ NewFileSingle
  \/ OpenFileDialogSingle
  \/ Save
  \/ SaveAs
  \/ CloseCurrentTab
  \/ SelectTab
  \/ TabBarClickedSingle
  \/ TabBarDoubleClicked
  \/ Edit
  \/ SortTimeout
  \/ Tick
  \/ FontSizeChanged
  \/ CloseEvent

SpecSingle == InitSingle /\ [][NextSingle]_vars

\* The handlers that make, close, select and rename tabs, with up to MaxDocs
\* documents.
NextTitles ==
  \/ NewFile
  \/ CloseCurrentTab
  \/ SelectTab
  \/ TabBarClicked
  \/ TabBarDoubleClicked

\* The tab bar under the handlers that change it, the rename dialog included.
SpecTitles == Init /\ [][NextTitles]_vars

\* ------------------------------------------------- FileManager on its own
\* The public methods of FileManager called directly, with no window: tabs
\* stays empty.

\* FileManager(config) with the configuration file cf and the disk d.
StartFM(cf, d) ==
  LET s == restore_from_config(load(cf), d)
  IN /\ files = s.files
     /\ buffers = s.buffers
     /\ active_index = s.active_index
     /\ tabs = <<>>
     /\ current = -1
     /\ disk = d
     /\ config_file = cf
     /\ state = load(cf)
     /\ phase = "running"
     /\ ev = Event("restore", -1, "", "none")

\* The configuration files a FileManager can start from.
ConfigFilesFM ==
  ConfigFiles \cup {NoConfigFile, [kind |-> "ok", data |-> SnapshotOne]}

InitFM == \E cf \in ConfigFilesFM, d \in Disks : StartFM(cf, d)

\* open_file(path) while fewer than n documents are open or the path is
\* open; ev.arg is the index returned.
OpenFileCallWithin(n) ==
  /\ \E path \in PathInputs :
       /\ Len(files) < n \/ find_open(files, PathOf(path)) >= 0
       /\ LET o == open_file(St, PathOf(path))
          IN /\ Becomes(o.s)
             /\ ev' = Event("open_file", o.ret, path, "none")
  /\ UNCHANGED <<config_file, state, phase>>

OpenFileCall == OpenFileCallWithin(MaxDocs)

\* new_file() while fewer than n documents are open.
NewFileCallWithin(n) ==
  /\ Len(files) < n
  /\ Becomes(new_file(St))
  /\ ev' = Event("new_file", Len(files), "", "none")
  /\ UNCHANGED <<config_file, state, phase>>

NewFileCall == NewFileCallWithin(MaxDocs)

\* set_buffer(text, index); ev has a fifth field, text: the text passed.
SetBufferCall ==
  /\ \E text \in TextInputs, index \in IndexInputs :
       /\ Becomes(set_buffer(St, text, index))
       /\ ev' = [op |-> "set_buffer", arg |-> index, path |-> "",
                 err |-> "none", text |-> text]
  /\ UNCHANGED <<config_file, state, phase>>

\* save_file(path, index); ev.path is "" when no path is passed, and ev has
\* a fifth field, ret: the path returned.
SaveFileCall ==
  /\ \E has_path \in BOOLEAN, path \in PathInputs, index \in IndexInputs,
        ok \in BOOLEAN :
       LET r == save_file(St, has_path, PathOf(path), index, ok)
       IN /\ Becomes(r.s)
          /\ ev' = [op |-> "save_file", arg |-> index,
                    path |-> IF has_path THEN path ELSE "", err |-> r.err,
                    ret |-> r.ret]
  /\ UNCHANGED <<config_file, state, phase>>

\* close_file(index)
CloseFileCall ==
  /\ \E index \in IndexInputs :
       /\ Becomes(close_file(St, index))
       /\ ev' = Event("close_file", index, "", "none")
  /\ UNCHANGED <<config_file, state, phase>>

NextFM ==
  \/ OpenFileCall
  \/ NewFileCall
  \/ SetBufferCall
  \/ SaveFileCall
  \/ CloseFileCall

SpecFM == InitFM /\ [][NextFM]_vars

\* Snapshots whose last_files and buffers differ in length: a path more, a
\* buffer more, buffers and no path.
SnapshotMorePaths ==
  [last_files |-> <<".", "/w/a">>, active_index |-> 1,
   titles |-> <<>>, buffers |-> <<TextB>>, font_size |-> DefaultFontSize]

SnapshotMoreBuffers ==
  [last_files |-> <<"/w/a">>, active_index |-> 0,
   titles |-> <<>>, buffers |-> <<<<>>, TextB>>, font_size |-> DefaultFontSize]

SnapshotNoPaths ==
  [last_files |-> <<>>, active_index |-> 0,
   titles |-> <<>>, buffers |-> <<TextB>>, font_size |-> DefaultFontSize]

ConfigFilesLengths ==
  {[kind |-> "ok", data |-> sn] :
     sn \in {SnapshotMorePaths, SnapshotMoreBuffers, SnapshotNoPaths}}

\* FileManager(config) on such a snapshot.
InitLengths == \E cf \in ConfigFilesLengths, d \in Disks : StartFM(cf, d)

\* The methods of FileManager called on the session restored from it.
SpecLengths == InitLengths /\ [][NextFM]_vars

\* ------------------------------------- FileManager with up to three files
\* open_file, new_file, set_buffer and close_file called directly, with up
\* to MaxDocsFM documents.

OpenFileCallThree == OpenFileCallWithin(MaxDocsFM)

NewFileCallThree == NewFileCallWithin(MaxDocsFM)

NextFMThree ==
  \/ OpenFileCallThree
  \/ NewFileCallThree
  \/ SetBufferCall
  \/ CloseFileCall

SpecFMThree == InitFM /\ [][NextFMThree]_vars

\* -------------------------------------------------- start with arguments
\* The window is up on a restored session and the single-shot timer of
\* run_app fires once: open_files_from_args runs on the arguments.  Here ev
\* has a fifth field, args: sys.argv[1:].

\* The most file arguments on the command line.
MaxArgs == 2

\* The arguments that can be given.
ArgInputs == {"/w/a", "/l/a", "/w/d"}

\* A snapshot of one document bound to /w/a by way of the link /l.
SnapshotLink ==
  [last_files |-> <<"/l/a">>, active_index |-> 0, titles |-> <<"a">>,
   buffers |-> <<<<>>>>, font_size |-> DefaultFontSize]

\* A snapshot of an unbound document and a document bound to /w/a, the
\* first one active.
SnapshotSecond ==
  [last_files |-> <<".", "/w/a">>, active_index |-> 0,
   titles |-> <<"untitled", "a">>, buffers |-> <<<<>>, <<>>>>,
   font_size |-> DefaultFontSize]

\* The configuration files a run with arguments can start from.
ConfigFilesArgs ==
  {NoConfigFile} \cup
    {[kind |-> "ok", data |-> sn] :
       sn \in {SnapshotOne, SnapshotTwo, SnapshotLink, SnapshotSecond}}

InitArgs == \E cf \in ConfigFilesArgs, d \in Disks : Start(cf, d)

\* The timer QTimer.singleShot(100, open_files_from_args) fires.
ArgsTimeout ==
  /\ ev.op = "start"
  /\ \E args \in SeqsUpTo(ArgInputs, MaxArgs), ok \in BOOLEAN :
       /\ Becomes(open_files_from_args(St, args, ok))
       /\ ev' = [op |-> "args", arg |-> Len(args), path |-> "",
                 err |-> "none", args |-> args]
  /\ UNCHANGED <<config_file, state, phase>>

NextArgs == ArgsTimeout

SpecArgs == InitArgs /\ [][NextArgs]_vars

\* ---------------------------------------------- ConfigManager on its own
\* ConfigManager is constructed on a configuration file, save is called
\* directly with any snapshot, a new ConfigManager is constructed on the file
\* left, and at last a FileManager is constructed from the state.  Here ev
\* has a fifth field, snap: the snapshot passed to save.

\* The most entries a snapshot has.
MaxEntries == 2

\* A text a snapshot holds that no file holds.
TextA == <<"a">>

\* The snapshots save is called with: last_files are Path objects.
SnapshotInputs ==
  [last_files : SeqsUpTo({"/w/a", EmptyPath}, MaxEntries),
   active_index : 0..MaxEntries,
   titles : {<<>>, <<"t">>},
   buffers : SeqsUpTo({<<>>, TextA}, MaxEntries),
   font_size : {DefaultFontSize, DefaultFontSize + 2}]

\* The records a well-formed configuration file can hold: an entry of
\* last_files can be "" or name a directory.
FileSnapshots ==
  [last_files : SeqsUpTo({"/w/a", EmptyPath, "", "/w/d"}, MaxEntries),
   active_index : 0..MaxEntries,
   titles : {<<>>, <<"t">>},
   buffers : SeqsUpTo({<<>>, TextA}, MaxEntries),
   font_size : {DefaultFontSize, DefaultFontSize + 2}]

\* {"font_size": "14"}: int("14") is 14.
WrongShapeFontSize ==
  [kind |-> "wrong_shape",
   data |-> [DefaultState EXCEPT !.font_size = DefaultFontSize + 2]]

\* {"last_files": "a"}: a string where a list is expected; the code indexes
\* it as the sequence of its characters.
WrongShapeLastFiles ==
  [kind |-> "wrong_shape", data |-> [DefaultState EXCEPT !.last_files = <<"a">>]]

\* The configuration files a ConfigManager can find.
ConfigFileInputs ==
  {[kind |-> "ok", data |-> sn] : sn \in FileSnapshots}
    \cup {[kind |-> k, data |-> DefaultState] :
            k \in {"absent", "unparsable", "not_record", "bad_int"}}
    \cup {WrongShapeFontSize, WrongShapeLastFiles}

\* ConfigManager() on the configuration file cf, the disk being d; no
\* FileManager exists yet.
InitConfig ==
  \E cf \in ConfigFileInputs, d \in Disks :
    /\ files = <<>>
    /\ buffers = <<>>
    /\ active_index = 0
    /\ tabs = <<>>
    /\ current = -1
    /\ disk = d
    /\ config_file = cf
    /\ state = load(cf)
    /\ phase = "running"
    /\ ev = [op |-> "load", arg |-> -1, path |-> "", err |-> "none",
             snap |-> DefaultState]

\* config.save(last_files, active_index, titles, buffers, font_size)
ConfigSaveCall ==
  /\ files = <<>>
  /\ \E sn \in SnapshotInputs :
       LET r == config_save(state, config_file,
                            <<sn.last_files, sn.active_index, sn.titles,
                              sn.buffers, sn.font_size>>)
       IN /\ state' = r.state
          /\ config_file' = r.file
          /\ ev' = [op |-> "config_save", arg |-> -1, path |-> "",
                    err |-> r.err, snap |-> sn]
  /\ UNCHANGED <<files, buffers, active_index, tabs, current, disk, phase>>

\* ConfigManager() constructed again on the file as it is.
ConfigLoad ==
  /\ files = <<>>
  /\ ev.op = "config_save"
  /\ state' = load(config_file)
  /\ ev' = [op |-> "load", arg |-> -1, path |-> "", err |-> "none",
            snap |-> ev.snap]
  /\ UNCHANGED <<files, buffers, active_index, tabs, current, disk,
                 config_file, phase>>

\* FileManager(config)
RestoreCall ==
  /\ ev.op = "load"
  /\ Becomes(restore_from_config(state, disk))
  /\ ev' = [op |-> "restore", arg |-> -1, path |-> "", err |-> "none",
            snap |-> ev.snap]
  /\ UNCHANGED <<config_file, state, phase>>

NextConfig ==
  \/ ConfigSaveCall
  \/ ConfigLoad
  \/ RestoreCall

SpecConfig == InitConfig /\ [][NextConfig]_vars

\* -------------------------------------------------- CodeEditor on its own
\* One editor whose surface holds any text of at most MaxLen characters with
\* the cursor anywhere in it; _sort_lines is called on it MaxSorts times.  The
\* buffer of the document is the text the surface held before the first call
\* (no call updates it).  Here ev has a fifth field, cur: the cursor before
\* the call.

\* The longest surface text.
MaxLen == 6

\* The number of times _sort_lines is called in a row.
MaxSorts == 2

\* The characters of a surface text: the three markers, a letter, a blank
\* and the line break.
Alphabet == {"-", "!", "+", "x", SP, NL}

\* toPlainText(): the texts the surface can hold.
SurfaceTexts == UNION {[1..n -> Alphabet] : n \in 0..MaxLen}

\* textCursor(): the <<blockNumber, positionInBlock>> pairs of a text.
Cursors(text) ==
  LET lines == Split(text)
  IN {<<b, c>> : b \in 0..(Len(lines) - 1), c \in 0..MaxLen} \cap
       {cur \in (0..MaxLen) \X (0..MaxLen) :
          cur[1] < Len(lines) /\ cur[2] <= Len(lines[cur[1] + 1])}

\* No regular file exists.
EmptyDisk == [p \in DiskFiles |-> NoFile]

\* An editor with the surface text `text`, the cursor at cur and no
\* countdown pending.
InitSort ==
  \E text \in SurfaceTexts :
    \E cur \in Cursors(text) :
      /\ files = <<EmptyPath>>
      /\ buffers = <<text>>
      /\ active_index = 0
      /\ tabs = <<[EditorTab(text, "untitled", FALSE)
                     EXCEPT !.cur = cur, !.timer = -1, !.quiet = SortDelay]>>
      /\ current = 0
      /\ disk = EmptyDisk
      /\ config_file = NoConfigFile
      /\ state = DefaultState
      /\ phase = "running"
      /\ ev = [op |-> "surface", arg |-> 0, path |-> "", err |-> "none",
               cur |-> cur]

\* _sort_lines() on the editor; ev.arg counts the calls.
SortLinesCall ==
  /\ ev.arg < MaxSorts
  /\ Becomes(sort_tab(St, 0))
  /\ ev' = [op |-> "sort_lines", arg |-> ev.arg + 1, path |-> "",
            err |-> "none", cur |-> tabs[1].cur]
  /\ UNCHANGED <<config_file, state, phase>>

NextSort == SortLinesCall

SpecSort == InitSort /\ [][NextSort]_vars

\* ------------------------------------------------------------------ claims

\* TextB in block order.
SortedB == sort_lines(TextB, <<0, 0>>).text

\* The timer of the editor tab at 0-based index i, -2 when there is none.
timer_of(i) == IF is_editor(St, i) THEN tabs[i + 1].timer ELSE -2

\* C1: whenever the document list is not empty, the active index is an
\* index of it: 0 <= active_index < Len(files).
C1_ActiveIndexValid ==
  Len(files) > 0 => (0 <= active_index /\ active_index < Len(files))

\* C1, its case: the service tab was made current with MaxDocs documents
\* open, and the active index stayed on a document.
C1_Witness ==
  /\ ev.op = "select"
  /\ Len(files) = MaxDocs
  /\ current = Len(files)
  /\ active_index < Len(files)

\* C2: open_file with a path whose canonical form is that of an open
\* document adds no document and returns the index of that document.
C2_OpenDedupCanonical ==
  [][(/\ ev'.op = "open_file"
      /\ \E i \in 1..Len(files) : resolve(files[i]) = resolve(PathOf(ev'.path)))
     => /\ Len(files') = Len(files)
        /\ resolve(files[ev'.arg + 1]) = resolve(PathOf(ev'.path))]_vars

\* C2, its case: two open documents whose paths differ in spelling and
\* have one canonical form, after an open_file.
C2_Witness ==
  /\ ev.op = "open_file"
  /\ Len(files) = 2
  /\ files[1] # files[2]
  /\ resolve(files[1]) = resolve(files[2])

\* C3: a save_file that raises leaves every path, every buffer and the
\* active index as they were.
C3_FailedSaveKeepsSession ==
  [][(ev'.op = "save_file" /\ ev'.err # "none")
     => (files' = files /\ buffers' = buffers /\ active_index' = active_index)]_vars

\* C3, its case: save_file with a directory as the path raised, and the
\* document is bound to the directory.
C3_Witness ==
  /\ ev.op = "save_file"
  /\ ev.err = "TargetIsDirectory"
  /\ ev.path = "/w/d"
  /\ \E i \in 1..Len(files) : files[i] = "/w/d"

\* C4: save_file with no path on a document whose path is empty raises
\* NoTargetPath and writes nothing.
C4_UnboundSaveNoTargetPath ==
  [][LET idx == index_or_active(St, ev'.arg)
     IN (/\ ev'.op = "save_file"
         /\ ev'.path = ""
         /\ 0 <= idx /\ idx < Len(files)
         /\ files[idx + 1] = EmptyPath)
        => (ev'.err = "NoTargetPath" /\ disk' = disk)]_vars

\* C4, its case: save_file with no path on a document with the empty path
\* raised the error for a directory.
C4_Witness ==
  /\ ev.op = "save_file"
  /\ ev.path = ""
  /\ ev.err = "TargetIsDirectory"
  /\ LET idx == index_or_active(St, ev.arg)
     IN 0 <= idx /\ idx < Len(files) /\ files[idx + 1] = EmptyPath

\* C5: after an auto-sort the buffer of the document holds the text of
\* its surface.
C5_BufferHoldsSortedText ==
  (ev.op = "sort" /\ ev.arg < Len(buffers))
    => buffers[ev.arg + 1] = tabs[ev.arg + 1].text

\* C5, its case: a sort reordered the surface and the buffer still holds
\* the unsorted text.
C5_Witness ==
  /\ ev.op = "sort"
  /\ ev.arg < Len(buffers)
  /\ tabs[ev.arg + 1].text = SortedB
  /\ buffers[ev.arg + 1] = TextB

\* C6: the handler of a font-size change or of the shutdown completes and
\* leaves the configuration file holding the paths, titles and buffers of
\* the session.
C6_SnapshotWritten ==
  [][ev'.op \in {"font_size", "closeEvent"}
     => /\ ev'.err = "none"
        /\ config_file'.kind = "ok"
        /\ config_file'.data.last_files = files
        /\ config_file'.data.titles = tab_titles(St)
        /\ config_file'.data.buffers = sync_current_editor_to_manager(St).buffers]_vars

\* C6, its case: a font-size change ended the process and the file is the
\* one the run started from.
C6_Witness ==
  /\ ev.op = "font_size"
  /\ ev.err = "TypeError"
  /\ phase = "aborted"
  /\ config_file \in ConfigFiles

\* C7: after a text change in the editor of tab ev.arg the buffer of the
\* document is the surface text; the file of a bound document holds it
\* when the write succeeded; nothing is written for an unbound document.
C7_AutoSave ==
  [][(ev'.op = "edit" /\ ev'.arg < Len(files'))
     => LET i == ev'.arg + 1
        IN /\ buffers'[i] = tabs'[i].text
           /\ files'[i] = EmptyPath => disk' = disk
           /\ (files'[i] # EmptyPath /\ ev'.err = "none")
                => (is_file(disk', files'[i])
                    /\ read_text(disk', files'[i]) = buffers'[i])]_vars

\* C7, its case: the text of an editor whose tab is titled "+" changed and
\* the buffer was left as it was.
C7_Witness ==
  /\ ev.op = "edit"
  /\ ev.err = "ignored"
  /\ ev.arg < Len(files)
  /\ tabs[ev.arg + 1].title = "+"
  /\ buffers[ev.arg + 1] # tabs[ev.arg + 1].text

\* C8 as stated: the document a sort reorders is the active document.
C8_SortOnActiveDocument == [][ev'.op = "sort" => ev'.arg = active_index']_vars

\* C8: a sort reorders the text of the editor whose own timer expired, be
\* its document active or not, and changes no other tab, no path, no
\* buffer, and neither the active nor the current index.
C8_SortOnOwnEditor ==
  [][ev'.op = "sort"
     => LET i == ev'.arg + 1
        IN /\ tabs[i].timer = 0
           /\ tabs'[i].text = sort_lines(tabs[i].text, tabs[i].cur).text
           /\ \A j \in 1..Len(tabs) : j # i => tabs'[j] = tabs[j]
           /\ Len(tabs') = Len(tabs)
           /\ files' = files
           /\ buffers' = buffers
           /\ active_index' = active_index
           /\ current' = current]_vars

\* C8, its case: a sort reordered the text of a document that is not the
\* active one.
C8_Witness ==
  /\ ev.op = "sort"
  /\ ev.arg # active_index
  /\ tabs[ev.arg + 1].text = SortedB

\* C9: a timer-triggered sort of an editor runs only when SortDelay has
\* passed since its last text change, and every text change of an editor
\* leaves its countdown at the full delay.
C9_Debounce ==
  [][/\ ev'.op = "sort" => tabs[ev'.arg + 1].quiet >= SortDelay
     /\ (ev'.op = "edit" /\ ev'.arg < Len(tabs'))
          => (tabs'[ev'.arg + 1].timer = SortDelay
              /\ tabs'[ev'.arg + 1].quiet = 0)]_vars

\* C9, its case: the timer of an editor that was quiet for the full delay
\* expired and the sort reordered its text.
C9_Witness ==
  /\ ev.op = "sort"
  /\ tabs[ev.arg + 1].text = SortedB
  /\ tabs[ev.arg + 1].quiet >= SortDelay
  /\ tabs[ev.arg + 1].timer = -1

\* C10 as stated: after a sort has run, timer-triggered or called by
\* set_text when an open file is chosen again, no countdown is pending.
C10_NoCountdownAfterSort ==
  /\ ev.op = "sort" => timer_of(ev.arg) = -1
  /\ (ev.op = "open" /\ ev.err = "dedup" /\ is_editor(St, active_index))
       => timer_of(active_index) = -1

\* C10: a sort leaves the timer as it found it: none is pending after a
\* timer-triggered sort, and after the sort set_text calls the countdown
\* pending is the one the load of the text started, in full.
C10_SortKeepsTimer ==
  /\ ev.op = "sort" => timer_of(ev.arg) = -1
  /\ (ev.op = "open" /\ ev.err = "dedup" /\ is_editor(St, active_index))
       => (timer_of(active_index) = SortDelay
           /\ tabs[active_index + 1].quiet = 0)

\* C10, its case: set_text loaded an unsorted text and sorted it, and the
\* countdown of the load is pending.
C10_Witness ==
  /\ ev.op = "open"
  /\ ev.err = "dedup"
  /\ is_editor(St, active_index)
  /\ tabs[active_index + 1].text = SortedB
  /\ buffers[active_index + 1] = TextB
  /\ timer_of(active_index) = SortDelay

\* The four categories.
Categories == {"Minus", "Exclamation", "Normal", "Plus"}

\* The place of a category in the block order.
BlockRank(cat) ==
  CASE cat = "Minus" -> 0
    [] cat = "Exclamation" -> 1
    [] cat = "Normal" -> 2
    [] cat = "Plus" -> 3

\* C11: in the text a sort leaves, no line stands before a line of an
\* earlier block: Minus lines first, then Exclamation, Normal and Plus lines.
C11_BlockOrdering ==
  ev.op = "sort_lines" =>
    LET out == Split(tabs[1].text)
    IN \A i, j \in 1..Len(out) :
         i < j => BlockRank(classify(out[i])) <= BlockRank(classify(out[j]))

\* C11, its case: a text with one line of each category in the reverse
\* order was sorted into block order.
C11_Witness ==
  /\ ev.op = "sort_lines"
  /\ ev.arg = 1
  /\ buffers[1] = <<"+", NL, NL, "!", NL, "-">>
  /\ tabs[1].text = <<"-", NL, "!", NL, NL, "+">>

\* C12: for each category, the lines of that category after a sort are the
\* lines of that category before it, in the same order and unaltered; the
\* number of lines is the same.
C12_StablePartition ==
  [][ev'.op = "sort_lines"
     => LET inp == Split(tabs[1].text)
            out == Split(tabs'[1].text)
        IN /\ Len(out) = Len(inp)
           /\ \A cat \in Categories :
                SelectSeq(out, LAMBDA l : classify(l) = cat)
                  = SelectSeq(inp, LAMBDA l : classify(l) = cat)]_vars

\* C12, its case: two different Plus lines around a Minus line; the sort
\* moved the Minus line up and kept the Plus lines in their order.
C12_Witness ==
  /\ ev.op = "sort_lines"
  /\ ev.arg = 1
  /\ buffers[1] = <<"+", SP, NL, "-", NL, "+">>
  /\ tabs[1].text = <<"-", NL, "+", SP, NL, "+">>

\* C13: a sort applied to the text a sort left changes nothing.
C13_SortIdempotent ==
  [][(ev.op = "sort_lines" /\ ev'.op = "sort_lines")
     => tabs'[1].text = tabs[1].text]_vars

\* C13, its case: the first sort changed the text and a second sort ran.
C13_Witness ==
  /\ ev.op = "sort_lines"
  /\ ev.arg = 2
  /\ buffers[1] # tabs[1].text

\* The last character of a string that is not whitespace, "" when there is
\* none.
LastMark(line) ==
  LET marks == {i \in 1..Len(line) : line[i] \notin {SP, NL}}
  IN IF marks = {} THEN ""
     ELSE line[CHOOSE i \in marks : \A j \in marks : j <= i]

\* C14: for the surface text taken as one string and for each of its lines,
\* classify gives one of the four categories, fixed by the last character
\* that is not whitespace: "-" Minus, "!" Exclamation, "+" Plus, anything
\* else Normal; "x+-" is Minus and "x-+ " is Plus.
C14_ClassifyByLastCharacter ==
  /\ \A line \in {tabs[1].text} \cup
                   {Split(tabs[1].text)[k] : k \in 1..Len(Split(tabs[1].text))} :
       /\ classify(line) \in Categories
       /\ classify(line) = (CASE LastMark(line) = "-" -> "Minus"
                              [] LastMark(line) = "!" -> "Exclamation"
                              [] LastMark(line) = "+" -> "Plus"
                              [] OTHER -> "Normal")
  /\ classify(<<"x", "+", "-">>) = "Minus"
  /\ classify(<<"x", "-", "+", SP>>) = "Plus"

\* C14, its case: the line "x-+ " was sorted as a Plus line, below the
\* empty line that followed it.
C14_Witness ==
  /\ ev.op = "sort_lines"
  /\ ev.arg = 1
  /\ buffers[1] = <<"x", "-", "+", SP, NL>>
  /\ tabs[1].text = <<NL, "x", "-", "+", SP>>

\* C15: when a sort changes the text, the cursor ends on the first line of
\* the new text that equals the line it was on, at the old column or at the
\* end of that line if it is shorter; so also when that line is empty.
C15_CursorOnFirstEqualLine ==
  [][(ev'.op = "sort_lines" /\ tabs'[1].text # tabs[1].text)
     => LET old == Split(tabs[1].text)[tabs[1].cur[1] + 1]
            out == Split(tabs'[1].text)
            k == CHOOSE i \in 1..Len(out) :
                   out[i] = old /\ \A j \in 1..(i - 1) : out[j] # old
        IN tabs'[1].cur = <<k - 1, Min(tabs[1].cur[2], Len(out[k]))>>]_vars

\* C15, its case: the cursor was on the empty first line of a text whose
\* second line is a Minus line; the sort moved the empty line down and left
\* the cursor on the first line.
C15_Witness ==
  /\ ev.op = "sort_lines"
  /\ ev.arg = 1
  /\ ev.cur = <<0, 0>>
  /\ buffers[1] = <<NL, "-">>
  /\ tabs[1].text = <<"-", NL>>
  /\ tabs[1].cur = <<0, 0>>

\* C16: a sort that computes the text the surface already holds leaves the
\* text and the cursor, line and column, as they were.
C16_NoOpKeepsTextAndCursor ==
  [][(ev'.op = "sort_lines"
        /\ Join(sorted_lines(Split(tabs[1].text))) = tabs[1].text)
     => (tabs'[1].text = tabs[1].text /\ tabs'[1].cur = tabs[1].cur)]_vars

\* C16, its case: a sort ran on a text already in block order with the
\* cursor at the end of its second line, and the cursor is still there.
C16_Witness ==
  /\ ev.op = "sort_lines"
  /\ ev.arg = 1
  /\ buffers[1] = <<"-", NL, "+">>
  /\ tabs[1].text = <<"-", NL, "+">>
  /\ ev.cur = <<1, 1>>
  /\ tabs[1].cur = <<1, 1>>

C18_CloseFile ==
  [][ev'.op = "close_file"
     => LET idx == IF ev'.arg = NoIndex THEN active_index ELSE ev'.arg
            n == Len(files)
        IN IF 0 <= idx /\ idx < n
           THEN /\ Len(files') = n - 1
                /\ Len(buffers') = n - 1
                /\ \A j \in 1..(n - 1) :
                     /\ files'[j] = files[IF j <= idx THEN j ELSE j + 1]
                     /\ buffers'[j] = buffers[IF j <= idx THEN j ELSE j + 1]
                /\ active_index' = (IF n - 1 = 0 THEN 0
                                    ELSE IF idx - 1 > 0 THEN idx - 1 ELSE 0)
                /\ disk' = disk
           ELSE /\ files' = files
                /\ buffers' = buffers
                /\ active_index' = active_index
                /\ disk' = disk]_vars

\* C18, its case: the second of three documents was closed; the two others
\* are left and the first one is active.
C18_Witness ==
  /\ ev.op = "close_file"
  /\ ev.arg = 1
  /\ Len(files) = 2
  /\ active_index = 0

\* C19: a save_file that returns leaves the file at the target, the given
\* path or else the document's path, holding the document's buffer,
\* returns the target, leaves the document bound to it, and changes no
\* other path, no buffer, not the active index and no other file.
C19_SuccessfulSave ==
  [][(ev'.op = "save_file" /\ ev'.err = "none")
     => LET i == (IF ev'.arg = NoIndex THEN active_index ELSE ev'.arg) + 1
            target == IF ev'.path # "" THEN ev'.path ELSE files[i]
        IN /\ is_file(disk', target)
           /\ read_text(disk', target) = buffers[i]
           /\ ev'.ret = target
           /\ files'[i] = target
           /\ Len(files') = Len(files)
           /\ \A j \in 1..Len(files) : j # i => files'[j] = files[j]
           /\ buffers' = buffers
           /\ active_index' = active_index
           /\ \A f \in DiskFiles : f # resolve(target) => disk'[f] = disk[f]]_vars

\* C19, its case: the second document, not the active one, was saved under
\* the path /l/a; it is bound to /l/a and the file holds its buffer.
C19_Witness ==
  /\ ev.op = "save_file"
  /\ ev.err = "none"
  /\ ev.arg = 1
  /\ ev.path = "/l/a"
  /\ active_index = 0
  /\ Len(files) = 2
  /\ files[2] = "/l/a"
  /\ buffers[2] = TextB
  /\ read_text(disk, "/l/a") = TextB

\* C20: open_file with a path that is not in the document list appends one
\* document bound to that path, makes it active and returns its index, the
\* count before the call; its buffer is the text of the file, or empty when
\* the file does not exist or cannot be read; nothing is raised and nothing
\* else changes.
C20_OpenNewPath ==
  [][(ev'.op = "open_file"
        /\ \A i \in 1..Len(files) : files[i] # PathOf(ev'.path))
     => LET path == PathOf(ev'.path)
            n == Len(files)
        IN /\ files' = Append(files, path)
           /\ Len(buffers') = n + 1
           /\ \A j \in 1..n : buffers'[j] = buffers[j]
           /\ buffers'[n + 1] = (IF resolve(path) \in DiskFiles
                                      /\ disk[resolve(path)].ex
                                 THEN disk[resolve(path)].text
                                 ELSE <<>>)
           /\ active_index' = n
           /\ ev'.arg = n
           /\ ev'.err = "none"
           /\ disk' = disk]_vars

\* C20, its case: /w/a, which does not exist, was opened after another
\* document: it is the second document, active, with an empty buffer, and
\* no file was created.
C20_Witness ==
  /\ ev.op = "open_file"
  /\ ev.path = "/w/a"
  /\ ev.arg = 1
  /\ ~is_file(disk, "/w/a")
  /\ Len(files) = 2
  /\ files[2] = "/w/a"
  /\ buffers[2] = <<>>
  /\ active_index = 1

\* C21: new_file appends one document with the empty path and an empty
\* buffer, makes it active, returns its index, the count before the call,
\* and changes no path and no buffer of the documents there were, nor the
\* disk.
C21_NewFile ==
  [][ev'.op = "new_file"
     => /\ files' = Append(files, EmptyPath)
        /\ buffers' = Append(buffers, <<>>)
        /\ active_index' = Len(files)
        /\ ev'.arg = Len(files)
        /\ disk' = disk]_vars

\* C21, its case: new_file was called with the bound document /w/a open
\* and holding a text; the new document is second, empty, unbound, active.
C21_Witness ==
  /\ ev.op = "new_file"
  /\ ev.arg = 1
  /\ files = <<"/w/a", EmptyPath>>
  /\ buffers = <<TextB, <<>>>>
  /\ active_index = 1

\* C22: set_buffer(text, index), index None meaning the active index, with
\* an index of the list makes text the buffer of that document and changes
\* nothing else: no path, no other buffer, not the active index, not the
\* disk; with any other index it changes nothing.
C22_SetBuffer ==
  [][ev'.op = "set_buffer"
     => LET idx == IF ev'.arg = NoIndex THEN active_index ELSE ev'.arg
        IN /\ files' = files
           /\ active_index' = active_index
           /\ disk' = disk
           /\ Len(buffers') = Len(buffers)
           /\ \A j \in 1..Len(buffers) :
                buffers'[j] = (IF j = idx + 1 THEN ev'.text ELSE buffers[j])]_vars

\* C22, its case: the buffer of the second document was set while the first
\* one was active and kept its empty buffer.
C22_Witness ==
  /\ ev.op = "set_buffer"
  /\ ev.arg = 1
  /\ ev.text = TextB
  /\ active_index = 0
  /\ Len(buffers) = 2
  /\ buffers[1] = <<>>
  /\ buffers[2] = TextB

C24_MalformedGivesDefault ==
  (ev.op = "load" /\ config_file.kind # "ok") => state = DefaultState

\* C24, its case: the file holds a string where the list of paths is
\* expected, and the state holds that string.
C24_Witness ==
  /\ ev.op = "load"
  /\ config_file = WrongShapeLastFiles
  /\ state.last_files = <<"a">>

\* C25: the FileManager constructed from a state has one document per entry
\* of the snapshot, the longer of last_files and buffers counting, each with
\* the path of its entry, in order; from a snapshot with no entry it has one
\* document with the empty path and an empty buffer; so it has at least one
\* document.
C25_RestoreOnePerEntry ==
  ev.op = "restore"
    => LET n == IF Len(state.last_files) > Len(state.buffers)
                THEN Len(state.last_files) ELSE Len(state.buffers)
       IN /\ Len(files) >= 1
          /\ Len(buffers) = Len(files)
          /\ IF n = 0
             THEN files = <<EmptyPath>> /\ buffers = <<<<>>>>
             ELSE /\ Len(files) = n
                  /\ \A i \in 1..n :
                       files[i] = (IF i <= Len(state.last_files)
                                        /\ state.last_files[i] # ""
                                   THEN state.last_files[i]
                                   ELSE EmptyPath)

\* C25, its case: a FileManager was constructed from a snapshot with no
\* entry and has one empty unbound document.
C25_Witness ==
  /\ ev.op = "restore"
  /\ config_file.kind = "ok"
  /\ state.last_files = <<>>
  /\ state.buffers = <<>>
  /\ files = <<EmptyPath>>
  /\ buffers = <<<<>>>>

\* C26: after the construction from a state, the buffer of a document whose
\* entry has a path is the text of the file when the file can be read, and
\* the persisted buffer otherwise; the buffer of a document whose entry has
\* no path is the persisted buffer.
C26_RestorePrefersDisk ==
  ev.op = "restore"
    => \A i \in 1..Len(state.last_files) :
         LET p_str == state.last_files[i]
             persisted == IF i <= Len(state.buffers)
                          THEN state.buffers[i] ELSE <<>>
             readable == /\ p_str \notin {"", EmptyPath}
                         /\ resolve(p_str) \in DiskFiles
                         /\ disk[resolve(p_str)].ex
         IN buffers[i] = (IF readable THEN disk[resolve(p_str)].text
                          ELSE persisted)

\* C26, its case: the snapshot holds the text "a" for /w/a, the file holds
\* another text, and the document has the text of the file.
C26_Witness ==
  /\ ev.op = "restore"
  /\ state.last_files = <<"/w/a">>
  /\ state.buffers = <<TextA>>
  /\ disk["/w/a"] = [ex |-> TRUE, text |-> TextB]
  /\ buffers = <<TextB>>

C28_NoErrorEscapes == phase # "aborted" /\ ev.err \notin Escaped

\* C28, its case: Save was asked while the service tab was current, and the
\* IndexError of _on_save ended the process.
C28_Witness ==
  /\ ev.op = "save"
  /\ ev.err = "IndexError"
  /\ phase = "aborted"

\* C30: Save on a document with no path goes the way of Save As: it ends
\* cancelled, or with the document bound to the chosen path and the file
\* holding its buffer, or with the write of the chosen file failing.
C30_SaveUnboundAsksPath ==
  [][(/\ ev'.op = "save"
      /\ is_editor(St, current)
      /\ current < Len(files)
      /\ files[current + 1] = EmptyPath)
     => \/ ev'.err = "cancelled"
        \/ ev'.err = "FileWriteError"
        \/ /\ ev'.err = "none"
           /\ files'[current + 1] # EmptyPath
           /\ is_file(disk', files'[current + 1])
           /\ read_text(disk', files'[current + 1]) = buffers'[current + 1]]_vars

\* C30, its case: Save was asked on the current document, which has no
\* path; save_file raised the directory error and the document has no path
\* still.
C30_Witness ==
  /\ ev.op = "save"
  /\ ev.err = "TargetIsDirectory"
  /\ is_editor(St, current)
  /\ current < Len(files)
  /\ files[current + 1] = EmptyPath

\* A text is in block order: no line stands before a line of an earlier block.
InBlockOrder(text) ==
  LET out == Split(text)
  IN \A i, j \in 1..Len(out) :
       i < j => BlockRank(classify(out[i])) <= BlockRank(classify(out[j]))

\* The ticks for which the surface of tab i has been left alone; -1 when tab
\* i is no editor.
quiet_of(i) == IF is_editor(St, i) THEN tabs[i + 1].quiet ELSE -1

\* Tab i is an editor that shows its text in block order and has no sort
\* pending.
Settled(i) ==
  /\ is_editor(St, i)
  /\ InBlockOrder(tabs[i + 1].text)
  /\ timer_of(i) = -1

\* C29: with the timers running, an editor whose text has just changed is
\* left alone for a tick or is closed; and an editor left alone since its
\* last text change comes to show its text in block order with no sort
\* pending, unless its text changes again or it is closed first.
C29_SortEventually ==
  \A i \in 0..(MaxDocs - 1) :
    /\ (quiet_of(i) = 0) ~> (quiet_of(i) # 0)
    /\ (quiet_of(i) > 0)
         ~> (Settled(i) \/ quiet_of(i) = 0 \/ ~is_editor(St, i))

\* C29, its case: the timer of the second document, edited and then left
\* alone, fired; its text was reordered and nothing is pending for it.
C29_Witness ==
  /\ ev.op = "sort"
  /\ ev.arg = 1
  /\ Len(files) = 2
  /\ tabs[2].text = SortedB
  /\ Settled(1)

\* C31: after every handler, with a document open and an editor tab
\* selected, the active index is the index of the selected tab.
C31_ActiveIsCurrent ==
  (phase = "running" /\ Len(files) >= 1 /\ is_editor(St, current))
    => active_index = current

\* C31, its case: the user selected the editor tab of a document whose tab
\* is titled "+"; the tab switch was ignored and the active index is that of
\* another document.
C31_Witness ==
  /\ ev.op = "select"
  /\ phase = "running"
  /\ is_editor(St, current)
  /\ tabs[current + 1].title = "+"
  /\ active_index # current

\* C32: after every handler the tab bar holds one editor tab for each
\* document, in the first places, and then one service tab titled "+".
C32_OneTabPerDocument ==
  phase = "running" =>
    /\ Len(tabs) = Len(files) + 1
    /\ \A i \in 1..Len(files) : ~tabs[i].plus
    /\ tabs[Len(tabs)].plus
    /\ tabs[Len(tabs)].title = "+"

\* C32, its case: a new document was made while an editor tab was titled
\* "+"; that editor tab was removed for the service tab, and the tab bar
\* ends with two service tabs.
C32_Witness ==
  /\ ev.op = "new"
  /\ Len(tabs) >= 2
  /\ tabs[Len(tabs)].plus
  /\ tabs[Len(tabs) - 1].plus

\* C33: the list of paths and the list of buffers have the same length in
\* every state, the state restored from a snapshot whose last_files and
\* buffers differ in length included.
C33_SameLength == Len(files) = Len(buffers)

\* C33, its case: the session was restored from a snapshot with one path and
\* two buffers, and holds two documents.
C33_Witness ==
  /\ ev.op = "restore"
  /\ Len(state.last_files) = 1
  /\ Len(state.buffers) = 2
  /\ Len(files) = 2
  /\ Len(buffers) = 2

====
